---- MODULE Spec2Model ----
(***************************************************************************)
(* State-machine model of the agent-chat server (src/unnamed/part_003):    *)
(* the agents and messages tables, the rate-limit map, the WebSocket       *)
(* connection set, and one action per HTTP handler / WebSocket event.      *)
(* Node runs every handler to completion on one thread and better-sqlite3  *)
(* is synchronous, so each handler is one atomic action.                   *)
(***************************************************************************)
EXTENDS Integers, Sequences, FiniteSets, TLC

(***************************************************************************)
(* Bounds of the model.                                                    *)
(***************************************************************************)
\* rows the messages table may hold
MaxMsgs == 3
\* stand-in for LIMIT 200 of getMessagesSince / getMessagesSinceAllRooms
SinceLimit == 2
\* stand-in for LIMIT 100 of getAllMessages / getRecentAllRooms
RecentLimit == 2
\* stand-in for the 100 failed polls in a row the client tolerates
ErrorLimit == 1

\* part_003:86
RATE_LIMIT_MS == 30000

\* Instants (ms) the wall clock may show when a handler reads it: the first
\* two share a second and are less than RATE_LIMIT_MS apart, the third is a
\* full second more than RATE_LIMIT_MS after them.
Instants == {0, 500, RATE_LIMIT_MS + 1000}
\* values uuidv4() may return (so the agents table holds at most two rows)
Uuids == {1, 2}
\* the WebSocket objects that may ever be created
Conns == {1, 2}

(***************************************************************************)
(* JavaScript values arriving in a request body or query string.           *)
(***************************************************************************)
Undefined == [t |-> "undefined"]
Str(s) == [t |-> "string", s |-> s]
Num(n) == [t |-> "number", n |-> n]

\* !v
IsFalsy(v) ==
    \/ v.t = "undefined"
    \/ v.t = "string" /\ v.s = <<>>
    \/ v.t = "number" /\ v.n = 0

IsSpace(ch) == ch = " "

RECURSIVE TrimStart(_)
TrimStart(s) ==
    IF s = <<>> THEN <<>>
    ELSE IF IsSpace(Head(s)) THEN TrimStart(Tail(s)) ELSE s

RECURSIVE TrimEnd(_)
TrimEnd(s) ==
    IF s = <<>> THEN <<>>
    ELSE IF IsSpace(s[Len(s)]) THEN TrimEnd(SubSeq(s, 1, Len(s) - 1)) ELSE s

\* String.prototype.trim
Trim(s) == TrimEnd(TrimStart(s))

General == <<"g", "e", "n", "e", "r", "a", "l">>
Tech == <<"t", "e", "c", "h">>
Hi == <<"h", "i">>

(***************************************************************************)
(* Timestamps.  A timestamp string is kept as the tuple of its fixed-width *)
(* fields in string order: <<date, separator code, time of day in seconds, *)
(* fraction>>.  SQLite's datetime('now') prints "YYYY-MM-DD HH:MM:SS"      *)
(* (separator " ", code 32, no fraction); Date.prototype.toISOString       *)
(* prints "YYYY-MM-DDTHH:MM:SS.sssZ" (separator "T", code 84).  Comparing  *)
(* two such strings byte by byte is comparing the tuples lexicographically.*)
(***************************************************************************)
SqlDatetime(ms) == <<ms \div 86400000, 32, (ms % 86400000) \div 1000, 0>>
IsoString(ms) == <<ms \div 86400000, 84, (ms % 86400000) \div 1000, ms % 1000>>

RECURSIVE SeqLess(_, _)
SeqLess(a, b) ==
    IF b = <<>> THEN FALSE
    ELSE IF a = <<>> THEN TRUE
    ELSE IF Head(a) # Head(b) THEN Head(a) < Head(b)
    ELSE SeqLess(Tail(a), Tail(b))

\* a < b as SQLite (BINARY collation) and JavaScript compare strings
StrLess(a, b) == SeqLess(a, b)

\* the code unit of a character, for the characters room names are built of
CharCode(ch) ==
    CASE ch = " " -> 32
      [] ch = "a" -> 97
      [] ch = "c" -> 99
      [] ch = "e" -> 101
      [] ch = "g" -> 103
      [] ch = "h" -> 104
      [] ch = "l" -> 108
      [] ch = "n" -> 110
      [] ch = "r" -> 114
      [] ch = "t" -> 116

\* a < b for two texts, as SQLite (BINARY collation) orders them
TextLess(a, b) ==
    SeqLess([i \in DOMAIN a |-> CharCode(a[i])], [i \in DOMAIN b |-> CharCode(b[i])])

VARIABLES
    clock,        \* the wall clock, ms
    agents,       \* the agents table, rows in insertion order
    messages,     \* the messages table, rows in insertion (commit) order
    rateLimits,   \* the Map agentId -> last admitted Date.now()
    wsClients,    \* the Set of WebSocket objects, in insertion order
    readyState,   \* readyState of each WebSocket object (0 before it exists)
    inbox,        \* payloads handed to send() of each WebSocket, in order
    resp,         \* the latest HTTP exchange (request credential, response)
    drain,        \* a consumer draining one room through GET /api/messages
    client        \* a polling client (agent-client.js): cursor, poll runs

vars == <<clock, agents, messages, rateLimits, wsClients, readyState, inbox,
          resp, drain, client>>

\* `ak_${uuidv4().replace(/-/g, '')}`
ApiKey(u) == <<"ak_", u>>

Range(s) == {s[i] : i \in DOMAIN s}


(***************************************************************************)
(* Prepared statements (part_003:44-55).                                   *)
(***************************************************************************)
\* INSERT INTO agents fails on a PRIMARY KEY (id) or UNIQUE (apiKey) conflict
AgentConstraintNone(rows, id, apiKey) == FALSE

AgentConstraintFails(rows, id, apiKey) ==
    \E i \in DOMAIN rows : rows[i].id = id \/ rows[i].apiKey = apiKey

\* stmts.insertAgent.run(id, name, description, apiKey) at wall-clock `now`
InsertAgent(rows, id, name, description, apiKey, now) ==
    Append(rows, [id |-> id, name |-> name, description |-> description,
                  apiKey |-> apiKey, createdAt |-> SqlDatetime(now),
                  lastSeen |-> SqlDatetime(now)])

\* stmts.getAgentByKey.get(apiKey): the index of the row, 0 when there is none
GetAgentByKeyAny(rows, apiKey) ==
    IF rows = <<>> THEN 0 ELSE 1

GetAgentByKey(rows, apiKey) ==
    IF \E i \in DOMAIN rows : rows[i].apiKey = apiKey
    THEN CHOOSE i \in DOMAIN rows : rows[i].apiKey = apiKey
    ELSE 0

\* stmts.updateLastSeen.run(id) at wall-clock `now`
UpdateLastSeen(rows, id, now) ==
    [i \in DOMAIN rows |->
        IF rows[i].id = id THEN [rows[i] EXCEPT !.lastSeen = SqlDatetime(now)]
        ELSE rows[i]]

\* id INTEGER PRIMARY KEY AUTOINCREMENT: one more than the largest rowid so far
MaxId(rows) ==
    IF rows = <<>> THEN 0
    ELSE CHOOSE n \in {rows[i].id : i \in DOMAIN rows} :
            \A i \in DOMAIN rows : rows[i].id <= n

NextRowidNoIncrement(rows) == IF rows = <<>> THEN 1 ELSE MaxId(rows)

NextRowid(rows) == MaxId(rows) + 1

\* stmts.insertMessage.run(agentId, agentName, content, room) at `now`:
\* the row gets the next rowid and timestamp datetime('now')
InsertMessageNotCommitted(rows, agentId, agentName, content, room, now) == rows

InsertMessageOverwrite(rows, agentId, agentName, content, room, now) ==
    <<[id |-> NextRowid(rows), agentId |-> agentId, agentName |-> agentName,
       content |-> content, room |-> room, timestamp |-> SqlDatetime(now)]>>

InsertMessage(rows, agentId, agentName, content, room, now) ==
    Append(rows, [id |-> NextRowid(rows), agentId |-> agentId,
                  agentName |-> agentName, content |-> content, room |-> room,
                  timestamp |-> SqlDatetime(now)])

\* index order of idx_messages_room_timestamp / idx_messages_timestamp: by
\* timestamp, rows of equal timestamp by rowid
RowBefore(a, b) ==
    \/ StrLess(a.timestamp, b.timestamp)
    \/ a.timestamp = b.timestamp /\ a.id <= b.id

\* ORDER BY timestamp ASC, read off the index
RECURSIVE OrderAsc(_)
OrderAsc(rows) ==
    IF rows = <<>> THEN <<>>
    ELSE LET i == CHOOSE i \in DOMAIN rows :
                    \A j \in DOMAIN rows : j = i \/ RowBefore(rows[i], rows[j])
         IN <<rows[i]>> \o
            OrderAsc(SubSeq(rows, 1, i - 1) \o SubSeq(rows, i + 1, Len(rows)))

\* Array.prototype.reverse; also the index read backwards (ORDER BY ... DESC)
ReverseNone(s) == s

Reverse(s) == [i \in 1..Len(s) |-> s[Len(s) + 1 - i]]

\* LIMIT n
LimitNone(rows, n) == rows

Limit(rows, n) == SubSeq(rows, 1, IF Len(rows) < n THEN Len(rows) ELSE n)

\* stmts.getMessagesSinceAllRooms.all(since)
GetMessagesSinceAllRooms(rows, since) ==
    LET Keep(r) == StrLess(since, r.timestamp)
    IN Limit(OrderAsc(SelectSeq(rows, Keep)), SinceLimit)

\* stmts.getMessagesSince.all(room, since)
GetMessagesSinceNoRoomFilter(rows, room, since) ==
    GetMessagesSinceAllRooms(rows, since)

GetMessagesSince(rows, room, since) ==
    LET Keep(r) == r.room = room /\ StrLess(since, r.timestamp)
    IN Limit(OrderAsc(SelectSeq(rows, Keep)), SinceLimit)

\* stmts.getAllMessages.all(room)
GetAllMessages(rows, room) ==
    LET Keep(r) == r.room = room
    IN Limit(Reverse(OrderAsc(SelectSeq(rows, Keep))), RecentLimit)

\* stmts.getRecentAllRooms.all()
GetRecentAllRooms(rows) == Limit(Reverse(OrderAsc(rows)), RecentLimit)

\* ORDER BY lastSeen DESC over agents rows, rows of equal lastSeen by rowid
RECURSIVE OrderByLastSeenDesc(_)
OrderByLastSeenDesc(rows) ==
    IF rows = <<>> THEN <<>>
    ELSE LET i == CHOOSE i \in DOMAIN rows :
                    \A j \in DOMAIN rows :
                        \/ StrLess(rows[j].lastSeen, rows[i].lastSeen)
                        \/ rows[j].lastSeen = rows[i].lastSeen /\ i <= j
         IN <<rows[i]>> \o
            OrderByLastSeenDesc(SubSeq(rows, 1, i - 1) \o SubSeq(rows, i + 1, Len(rows)))

\* stmts.getAllAgents.all(): SELECT id, name, description, createdAt, lastSeen
GetAllAgentsStar(rows) == OrderByLastSeenDesc(rows)

GetAllAgents(rows) ==
    LET sorted == OrderByLastSeenDesc(rows)
    IN [i \in DOMAIN sorted |->
          [id |-> sorted[i].id, name |-> sorted[i].name,
           description |-> sorted[i].description,
           createdAt |-> sorted[i].createdAt, lastSeen |-> sorted[i].lastSeen]]

\* ORDER BY room over a set of distinct room names
RECURSIVE OrderRooms(_)
OrderRooms(names) ==
    IF names = {} THEN <<>>
    ELSE LET least == CHOOSE n \in names :
                        \A m \in names : m = n \/ TextLess(n, m)
         IN <<least>> \o OrderRooms(names \ {least})

\* stmts.getRooms.all().map((r) => r.room): SELECT DISTINCT room ... ORDER BY room
GetRooms(rows) == OrderRooms({rows[i].room : i \in DOMAIN rows})

(***************************************************************************)
(* broadcastWs (part_003:105-112).  The Set is iterated in insertion       *)
(* order; send() is called on every client whose readyState is 1.  failAt  *)
(* is the position in the Set of a client whose send() throws (0: none     *)
(* throws): the exception leaves the loop, so clients after it are not     *)
(* reached.                                                                *)
(***************************************************************************)
SendThrows(clients, states, failAt) ==
    failAt \in DOMAIN clients /\ states[clients[failAt]] = 1

BroadcastWs(boxes, clients, states, data, failAt) ==
    [c \in DOMAIN boxes |->
        IF \E i \in DOMAIN clients :
              /\ clients[i] = c
              /\ states[c] = 1
              /\ (SendThrows(clients, states, failAt) => i < failAt)
        THEN Append(boxes[c], data)
        ELSE boxes[c]]


(***************************************************************************)
(* Request inputs.                                                         *)
(***************************************************************************)
\* the X-Agent-Key header: absent, held by no agent, or a generated key
KeyInputs == {Undefined, Str(<<"zz_", 0>>)} \cup {Str(ApiKey(u)) : u \in Uuids}
NameInputs == {Undefined, Str(<<" ">>), Str(<<" ", "A", " ">>)}
ContentInputs == {Undefined, Num(7), Str(<<" ">>), Str(<<" ">> \o Hi \o <<" ">>)}
RoomInputs == {Undefined, Str(<<" ">>), Str(<<" ">> \o Tech), Num(7)}
SinceInputs == {Undefined, Str(<<>>)} \cup {Str(SqlDatetime(t)) : t \in Instants}
\* a statement of the handler that throws: none, or one of the two writes
DbFaults == {"none", "updateLastSeen", "insertMessage"}
\* position in wsClients of a client whose send() throws, 0 for none
SendFaults == {0} \cup Conns

\* one HTTP exchange: the operation, the X-Agent-Key header the request
\* carried (read by POST /api/message only), the status and the body answered
Response(op, key, status, body) ==
    [op |-> op, key |-> key, status |-> status, body |-> body]

\* the poll() calls that may be running at once: the first one awaited by
\* pollLoop, the later ones started by setInterval
PollIds == {1, 2}

\* a poll() that is not running
IdleRun == [busy |-> FALSE, messages |-> <<>>, others |-> <<>>, next |-> 0]

Init ==
    /\ clock = 0
    /\ agents = <<>>
    /\ messages = <<>>
    /\ rateLimits = <<>>
    /\ wsClients = <<>>
    /\ readyState = [c \in Conns |-> 0]
    /\ inbox = [c \in Conns |-> <<>>]
    /\ resp = Response("none", Undefined, 0, [none |-> TRUE])
    /\ drain = [phase |-> "idle", room |-> General, cursor |-> SqlDatetime(0),
                init |-> SqlDatetime(0), got |-> <<>>, startLen |-> 0]
    /\ client = [phase |-> "off", lastTimestamp |-> IsoString(0), timer |-> FALSE,
                 startLen |-> 0, errorCount |-> 0, handled |-> <<>>, lastSend |-> "none", logged |-> {}, forwarded |-> {},
                 runs |-> [p \in PollIds |-> IdleRun]]

\* the wall clock moves on
Tick ==
    /\ \E t \in Instants : t > clock /\ clock' = t
    /\ UNCHANGED <<agents, messages, rateLimits, wsClients, readyState, inbox,
                   resp, drain, client>>

(***************************************************************************)
(* checkRateLimit (part_003:88-96).  Date.now() counts from the Unix        *)
(* epoch; the process is taken to start ProcessStart ms after it, later     *)
(* than one cooldown.                                                      *)
(***************************************************************************)
ProcessStart == 2 * RATE_LIMIT_MS

\* Date.now()
DateNow(ms) == ProcessStart + ms

\* instants around the end of a cooldown that starts at 0 or at 500
LimiterInstants ==
    {0, 500, RATE_LIMIT_MS - 1, RATE_LIMIT_MS, RATE_LIMIT_MS + 499,
     RATE_LIMIT_MS + 500, 2 * RATE_LIMIT_MS}

\* the wall clock moves on to instant t
TickTo(t) ==
    /\ t > clock /\ clock' = t
    /\ UNCHANGED <<agents, messages, rateLimits, wsClients, readyState, inbox,
                   resp, drain, client>>

\* rateLimits.get(agentId) || 0
LastAdmitted(limits, agentId) ==
    IF agentId \in DOMAIN limits THEN limits[agentId] ELSE 0

\* now - last < RATE_LIMIT_MS
TooSoonNever(last, now) == FALSE

TooSoon(last, now) == now - last < RATE_LIMIT_MS

\* one call of checkRateLimit(agentId); resp records what it returned
CheckRateLimit(agentId) ==
    LET last == LastAdmitted(rateLimits, agentId)
        now == DateNow(clock)
    IN IF TooSoon(last, now)
       THEN /\ resp' = Response("checkRateLimit", Undefined, 0,
                                [agentId |-> agentId, admitted |-> FALSE])
            /\ UNCHANGED <<clock, agents, messages, rateLimits, wsClients,
                           readyState, inbox, drain, client>>
       ELSE /\ rateLimits' = (agentId :> now) @@ rateLimits
            /\ resp' = Response("checkRateLimit", Undefined, 0,
                                [agentId |-> agentId, admitted |-> TRUE])
            /\ UNCHANGED <<clock, agents, messages, wsClients, readyState,
                           inbox, drain, client>>

(***************************************************************************)
(* wss.on('connection') and the close / error events (part_003:99-103).    *)
(***************************************************************************)
\* a new WebSocket is accepted: it is OPEN (1) when 'connection' is emitted
WsConnection(c) ==
    /\ readyState[c] = 0
    /\ wsClients' = Append(wsClients, c)
    /\ readyState' = [readyState EXCEPT ![c] = 1]
    /\ UNCHANGED <<clock, agents, messages, rateLimits, inbox, resp, drain, client>>

\* the closing handshake starts: readyState is CLOSING (2) until 'close'
WsClosing(c) ==
    /\ readyState[c] = 1
    /\ readyState' = [readyState EXCEPT ![c] = 2]
    /\ UNCHANGED <<clock, agents, messages, rateLimits, wsClients, inbox, resp,
                   drain, client>>

\* ws.on('close', () => wsClients.delete(ws)): readyState is CLOSED (3)
WsCloseKeeping(c) ==
    /\ readyState[c] \in {1, 2}
    /\ readyState' = [readyState EXCEPT ![c] = 3]
    /\ UNCHANGED <<clock, agents, messages, rateLimits, wsClients, inbox, resp,
                   drain, client>>

WsClose(c) ==
    /\ readyState[c] \in {1, 2}
    /\ readyState' = [readyState EXCEPT ![c] = 3]
    /\ wsClients' = SelectSeq(wsClients, LAMBDA x : x # c)
    /\ UNCHANGED <<clock, agents, messages, rateLimits, inbox, resp, drain, client>>

\* ws.on('error', () => wsClients.delete(ws)): the socket is then closing
WsError(c) ==
    /\ readyState[c] = 1
    /\ \E i \in DOMAIN wsClients : wsClients[i] = c
    /\ readyState' = [readyState EXCEPT ![c] = 2]
    /\ wsClients' = SelectSeq(wsClients, LAMBDA x : x # c)
    /\ UNCHANGED <<clock, agents, messages, rateLimits, inbox, resp, drain, client>>


(***************************************************************************)
(* POST /api/register (part_003:117-133).  u1 and u2 are the two values    *)
(* uuidv4() returns.                                                       *)
(***************************************************************************)
NameInvalidNoTrim(name) ==
    IsFalsy(name) \/ name.t # "string"

NameInvalid(name) ==
    IsFalsy(name) \/ name.t # "string" \/ Len(Trim(name.s)) = 0

\* (description || '').trim()
DescriptionText(description) ==
    IF IsFalsy(description) THEN <<>> ELSE Trim(description.s)

Register(name, description, u1, u2, failAt) ==
    IF NameInvalid(name)
    THEN /\ resp' = Response("register", Undefined, 400, [error |-> "name is required"])
         /\ UNCHANGED <<clock, agents, messages, rateLimits, wsClients,
                        readyState, inbox, drain, client>>
    ELSE IF AgentConstraintFails(agents, u1, ApiKey(u2))
    THEN \* insertAgent.run throws, caught at line 130
         /\ resp' = Response("register", Undefined, 500, [error |-> "Failed to register agent"])
         /\ UNCHANGED <<clock, agents, messages, rateLimits, wsClients,
                        readyState, inbox, drain, client>>
    ELSE LET event == [type |-> "agent_joined",
                       agent |-> [id |-> u1, name |-> Trim(name.s),
                                  description |-> DescriptionText(description)]]
         IN /\ agents' = InsertAgent(agents, u1, Trim(name.s),
                                     DescriptionText(description), ApiKey(u2), clock)
            /\ inbox' = BroadcastWs(inbox, wsClients, readyState, event, failAt)
            /\ resp' = IF SendThrows(wsClients, readyState, failAt)
                       THEN Response("register", Undefined, 500,
                                     [error |-> "Failed to register agent"])
                       ELSE Response("register", Undefined, 200,
                                     [agentId |-> u1, apiKey |-> ApiKey(u2),
                                      name |-> Trim(name.s)])
            /\ UNCHANGED <<clock, messages, rateLimits, wsClients, readyState,
                           drain, client>>

(***************************************************************************)
(* authenticate (part_003:64-76) followed by POST /api/message             *)
(* (part_003:136-160).                                                     *)
(***************************************************************************)
ContentInvalidNoTrim(content) ==
    IsFalsy(content) \/ content.t # "string"

ContentInvalid(content) ==
    IsFalsy(content) \/ content.t # "string" \/ Len(Trim(content.s)) = 0

\* (room || 'general'): the value .trim() is then called on
RoomOrGeneral(room) == IF IsFalsy(room) THEN Str(General) ELSE room

\* the status authenticate answers with, 0 when it calls next()
AuthStatus(rows, key) ==
    IF IsFalsy(key) THEN 401
    ELSE IF GetAgentByKey(rows, key.s) = 0 THEN 403
    ELSE 0

\* authenticate and the handler of POST /api/message, as the server runs them
HandleMessage(key, content, room, dbFault, failAt) ==
    IF AuthStatus(agents, key) = 401
    THEN /\ resp' = Response("message", key, 401, [error |-> "Missing X-Agent-Key header"])
         /\ UNCHANGED <<clock, agents, messages, rateLimits, wsClients,
                        readyState, inbox, drain>>
    ELSE IF AuthStatus(agents, key) = 403
    THEN /\ resp' = Response("message", key, 403, [error |-> "Invalid API key"])
         /\ UNCHANGED <<clock, agents, messages, rateLimits, wsClients,
                        readyState, inbox, drain>>
    ELSE IF dbFault = "updateLastSeen"
    THEN \* updateLastSeen.run throws in the middleware: Express answers 500
         /\ resp' = Response("message", key, 500, [error |-> "Internal Server Error"])
         /\ UNCHANGED <<clock, agents, messages, rateLimits, wsClients,
                        readyState, inbox, drain>>
    ELSE LET agent == agents[GetAgentByKey(agents, key.s)]
             seen == UpdateLastSeen(agents, agent.id, clock)
         IN
         IF ContentInvalid(content)
         THEN /\ agents' = seen
              /\ resp' = Response("message", key, 400, [error |-> "content is required"])
              /\ UNCHANGED <<clock, messages, rateLimits, wsClients, readyState,
                             inbox, drain>>
         ELSE IF RoomOrGeneral(room).t # "string"
         THEN \* .trim is not a function: thrown outside the try, Express answers 500
              /\ agents' = seen
              /\ resp' = Response("message", key, 500, [error |-> "Internal Server Error"])
              /\ UNCHANGED <<clock, messages, rateLimits, wsClients, readyState,
                             inbox, drain>>
         ELSE IF dbFault = "insertMessage"
         THEN \* insertMessage.run throws, caught at line 157
              /\ agents' = seen
              /\ resp' = Response("message", key, 500, [error |-> "Failed to send message"])
              /\ UNCHANGED <<clock, messages, rateLimits, wsClients, readyState,
                             inbox, drain>>
         ELSE LET targetRoom == Trim(RoomOrGeneral(room).s)
                  message == [id |-> NextRowid(messages), agentId |-> agent.id,
                              agentName |-> agent.name,
                              content |-> Trim(content.s), room |-> targetRoom,
                              timestamp |-> IsoString(clock)]
              IN /\ Len(messages) < MaxMsgs
                 /\ agents' = seen
                 /\ messages' = InsertMessage(messages, agent.id, agent.name,
                                              Trim(content.s), targetRoom, clock)
                 /\ inbox' = BroadcastWs(inbox, wsClients, readyState,
                                         [type |-> "new_message", message |-> message],
                                         failAt)
                 /\ resp' = IF SendThrows(wsClients, readyState, failAt)
                            THEN Response("message", key, 500,
                                          [error |-> "Failed to send message"])
                            ELSE Response("message", key, 200,
                                          [ok |-> TRUE, messageId |-> message.id])
                 /\ UNCHANGED <<clock, rateLimits, wsClients, readyState, drain>>

\* a POST /api/message from anyone but the polling client
PostMessage(key, content, room, dbFault, failAt) ==
    /\ HandleMessage(key, content, room, dbFault, failAt)
    /\ UNCHANGED client

(***************************************************************************)
(* GET /api/messages (part_003:163-178).                                   *)
(***************************************************************************)
\* what the handler puts in {messages}
MessagesResult(rows, since, room) ==
    LET targetRoom == Trim(RoomOrGeneral(room).s)
    IN IF ~IsFalsy(since)
       THEN GetMessagesSince(rows, targetRoom, since.s)
       ELSE Reverse(GetAllMessages(rows, targetRoom))

GetMessages(since, room) ==
    /\ resp' = Response("messages", Undefined, 200,
                        [messages |-> MessagesResult(messages, since, room)])
    /\ UNCHANGED <<clock, agents, messages, rateLimits, wsClients, readyState,
                   inbox, drain, client>>

(***************************************************************************)
(* GET /api/messages/all (part_003:182-195).                               *)
(***************************************************************************)
AllMessagesResult(rows, since) ==
    IF ~IsFalsy(since)
    THEN GetMessagesSinceAllRooms(rows, since.s)
    ELSE Reverse(GetRecentAllRooms(rows))

GetMessagesAll(since) ==
    /\ resp' = Response("messagesAll", Undefined, 200,
                        [messages |-> AllMessagesResult(messages, since)])
    /\ UNCHANGED <<clock, agents, messages, rateLimits, wsClients, readyState,
                   inbox, drain, client>>

(***************************************************************************)
(* GET /api/agents (part_003:198-205).                                     *)
(***************************************************************************)
ListAgentsTouching ==
    /\ resp' = Response("agents", Undefined, 200, [agents |-> GetAllAgents(agents)])
    /\ agents' = [i \in DOMAIN agents |->
                     [agents[i] EXCEPT !.lastSeen = SqlDatetime(clock)]]
    /\ UNCHANGED <<clock, messages, rateLimits, wsClients, readyState, inbox,
                   drain, client>>

ListAgents ==
    /\ resp' = Response("agents", Undefined, 200, [agents |-> GetAllAgents(agents)])
    /\ UNCHANGED <<clock, agents, messages, rateLimits, wsClients, readyState,
                   inbox, drain, client>>

(***************************************************************************)
(* GET /api/rooms (part_003:208-218).                                      *)
(***************************************************************************)
\* rooms.unshift('general') unless rooms.includes('general')
RoomsResultNoDefault(rows) == GetRooms(rows)

RoomsResult(rows) ==
    LET rooms == GetRooms(rows)
    IN IF \E i \in DOMAIN rooms : rooms[i] = General
       THEN rooms
       ELSE <<General>> \o rooms

ListRooms ==
    /\ resp' = Response("rooms", Undefined, 200, [rooms |-> RoomsResult(messages)])
    /\ UNCHANGED <<clock, agents, messages, rateLimits, wsClients, readyState,
                   inbox, drain, client>>


(***************************************************************************)
(* A consumer that drains one room: GET /api/messages with since set to    *)
(* the cursor, the cursor then advanced over the result as the polling     *)
(* client does (agent-client.js:192-196), until a result is empty.         *)
(***************************************************************************)
\* a cursor update that never moves the cursor
AdvanceCursorKeep(lastTimestamp, msgs) == lastTimestamp

\* for (const msg of messages) if (msg.timestamp > lastTimestamp) lastTimestamp = msg.timestamp
RECURSIVE AdvanceCursor(_, _)
AdvanceCursor(lastTimestamp, msgs) ==
    IF msgs = <<>> THEN lastTimestamp
    ELSE IF StrLess(lastTimestamp, Head(msgs).timestamp)
         THEN AdvanceCursor(Head(msgs).timestamp, Tail(msgs))
         ELSE AdvanceCursor(lastTimestamp, Tail(msgs))

DrainRooms == {General, Tech}

DrainStart(room) ==
    /\ drain.phase = "idle"
    /\ drain' = [phase |-> "running", room |-> room, cursor |-> SqlDatetime(0),
                 init |-> SqlDatetime(0), got |-> <<>>, startLen |-> Len(messages)]
    /\ UNCHANGED <<clock, agents, messages, rateLimits, wsClients, readyState,
                   inbox, resp, client>>

\* the polling client starts: let lastTimestamp = new Date().toISOString()
\* (agent-client.js:17); it then polls with since = lastTimestamp
ClientStart ==
    /\ drain.phase = "idle"
    /\ drain' = [phase |-> "running", room |-> General, cursor |-> IsoString(clock),
                 init |-> IsoString(clock), got |-> <<>>, startLen |-> Len(messages)]
    /\ UNCHANGED <<clock, agents, messages, rateLimits, wsClients, readyState,
                   inbox, resp, client>>

DrainPoll ==
    /\ drain.phase = "running"
    /\ LET result == MessagesResult(messages, Str(drain.cursor), Str(drain.room))
       IN /\ resp' = Response("messages", Undefined, 200, [messages |-> result])
          /\ drain' = IF result = <<>>
                      THEN [drain EXCEPT !.phase = "done"]
                      ELSE [drain EXCEPT
                              !.got = @ \o [i \in DOMAIN result |-> result[i].id],
                              !.cursor = AdvanceCursor(@, result)]
    /\ UNCHANGED <<clock, agents, messages, rateLimits, wsClients, readyState,
                   inbox, client>>

(***************************************************************************)
(* The polling client (agent-client.js; part_000 is the same loop).  poll() *)
(* awaits the fetch, then for each message of another agent awaits          *)
(* generateReply, then advances lastTimestamp.  Each action is the code     *)
(* between two awaits.  pollLoop awaits the first poll() and then installs  *)
(* setInterval(poll), which starts a poll() whether or not an earlier one   *)
(* has returned.  generateReply returns null at once for a message that     *)
(* does not mention AGENT_NAME, so the loop goes on without handing control *)
(* back; for one that does it awaits the completion service, whose answer   *)
(* is taken to be empty (null): nothing is sent.                           *)
(***************************************************************************)
\* process.env.AGENT_NAME: the name the client's own agent registered
AGENT_NAME == <<"A">>
OtherName == Str(<<"B">>)

DayMs == 24 * 60 * 60 * 1000
\* the client may start on one UTC day and messages arrive on the next
ClientInstants == {0, DayMs}

\* String.prototype.toLowerCase, for the characters in use
ToLower(ch) == IF ch = "A" THEN "a" ELSE IF ch = "B" THEN "b" ELSE ch

\* text.toLowerCase().includes(sub.toLowerCase())
Includes(text, sub) ==
    \E k \in 0..(Len(text) - Len(sub)) :
        \A i \in DOMAIN sub : ToLower(text[k + i]) = ToLower(sub[i])

\* mentionsMe in generateReply: the content names the client ("@name"
\* contains the name)
MentionsMe(msg) == Includes(msg.content, AGENT_NAME)

\* a content that mentions the client
MentionContent == Str(Hi \o <<" ", "A">>)

\* messages.filter(m => m.agentName !== AGENT_NAME)
NewFromOthers(msgs) == SelectSeq(msgs, LAMBDA m : m.agentName # AGENT_NAME)

\* how often the loop body of poll() has run for the message with this id
TimesHandled(handled, id) == IF id \in DOMAIN handled THEN handled[id] ELSE 0

\* the for-loop of poll() from message number `from` on, up to the first
\* message that mentions the client (whose generateReply is awaited) or to
\* the end: the handled counts and the index the loop stands at
RECURSIVE RunLoop(_, _, _)
RunLoop(handled, others, from) ==
    IF from > Len(others) \/ MentionsMe(others[from])
    THEN [handled |-> handled, next |-> from]
    ELSE RunLoop((others[from].id :> TimesHandled(handled, others[from].id) + 1)
                    @@ handled,
                 others, from + 1)

\* what fetchAllMessages resolves to: the all-rooms endpoint, or after its
\* failure the room endpoint without a room
FetchAllMessages(rows, lastTimestamp, outcome) ==
    IF outcome = "all"
    THEN AllMessagesResult(rows, Str(lastTimestamp))
    ELSE MessagesResult(rows, Str(lastTimestamp), Undefined)

FetchOutcomes == {"all", "fallback", "fail"}

\* a threshold that is reached one failed poll early
FatalAtLimit(errorCount) == errorCount >= ErrorLimit

\* if (errorCount > 100) process.exit(1)
Fatal(errorCount) == errorCount > ErrorLimit

\* the module is loaded and pollLoop() is called
PollLoopStart ==
    /\ client.phase = "off"
    /\ client' = [client EXCEPT !.phase = "running",
                                !.lastTimestamp = IsoString(clock),
                                !.startLen = Len(messages)]
    /\ UNCHANGED <<clock, agents, messages, rateLimits, wsClients, readyState,
                   inbox, resp, drain>>

\* poll() number p is called and its fetch settles; the loop runs up to the
\* first awaited generateReply, or to its end and the cursor update
PollFetch(p, outcome) ==
    /\ client.phase = "running"
    /\ ~client.runs[p].busy
    /\ client.timer \/ p = 1
    /\ IF outcome = "fail"
       THEN /\ client' = [client EXCEPT
                            !.errorCount = @ + 1,
                            !.timer = TRUE,
                            !.phase = IF Fatal(client.errorCount + 1)
                                      THEN "exited" ELSE @]
            /\ UNCHANGED resp
       ELSE LET msgs == FetchAllMessages(messages, client.lastTimestamp, outcome)
                others == NewFromOthers(msgs)
                loop == RunLoop(client.handled, others, 1)
            IN /\ resp' = Response(IF outcome = "all" THEN "messagesAll" ELSE "messages",
                                   Undefined, 200, [messages |-> msgs])
               /\ client' = IF loop.next > Len(others)
                             THEN [client EXCEPT
                                     !.errorCount = 0,
                                     !.handled = loop.handled,
                                     !.timer = TRUE,
                                     !.lastTimestamp = AdvanceCursor(@, msgs)]
                             ELSE [client EXCEPT
                                     !.errorCount = 0,
                                     !.handled = loop.handled,
                                     !.runs[p] = [busy |-> TRUE, messages |-> msgs,
                                                  others |-> others,
                                                  next |-> loop.next]]
    /\ UNCHANGED <<clock, agents, messages, rateLimits, wsClients, readyState,
                   inbox, drain>>

\* the API key the client sends with, and the text of a reply
AGENT_KEY == Str(ApiKey(1))
ReplyContent == Str(Hi)

\* what generateReply resolves to: null, or a text
Replies == {"null", "reply"}

\* the generateReply that poll() number p awaits settles; a reply is sent
\* with sendMessage(reply, msg.room), whose failure is caught in the loop;
\* the loop goes on to the next awaited generateReply, or to its end and the
\* cursor update.  The request of sendMessage is answered in the same step.
PollHandleReply(p, gen, dbFault) ==
    /\ client.phase = "running"
    /\ client.runs[p].busy
    /\ LET run == client.runs[p]
           msg == run.others[run.next]
           handled == (msg.id :> TimesHandled(client.handled, msg.id) + 1)
                         @@ client.handled
           loop == RunLoop(handled, run.others, run.next + 1)
           sent == IF gen = "null" THEN client.lastSend
                   ELSE IF resp'.status = 200 THEN "ok" ELSE "failed"
       IN /\ IF gen = "null"
             THEN UNCHANGED <<clock, agents, messages, rateLimits, wsClients,
                              readyState, inbox, resp, drain>>
             ELSE HandleMessage(AGENT_KEY, ReplyContent, Str(msg.room), dbFault, 0)
          /\ client' = IF loop.next > Len(run.others)
                       THEN [client EXCEPT
                               !.handled = loop.handled,
                               !.lastSend = sent,
                               !.lastTimestamp = AdvanceCursor(@, run.messages),
                               !.timer = TRUE,
                               !.runs[p] = IdleRun]
                       ELSE [client EXCEPT
                               !.handled = loop.handled,
                               !.lastSend = sent,
                               !.runs[p].next = loop.next]

\* the awaited generateReply resolves to null: nothing is sent
PollHandle(p) == PollHandleReply(p, "null", "none")

(***************************************************************************)
(* The webhook variant of the client (part_001): one room, every fetched   *)
(* message of another agent is logged, and the whole fetched list is       *)
(* posted to WEBHOOK_URL.                                                  *)
(***************************************************************************)
\* the ids of a list of messages
IdsOf(msgs) == {msgs[i].id : i \in DOMAIN msgs}

\* fetchMessages(): GET /api/messages?since=<lastTimestamp>&room=general
FetchMessages(rows, lastTimestamp) ==
    MessagesResult(rows, Str(lastTimestamp), Str(General))

\* WEBHOOK_URL is empty; the POST reaches the webhook; the POST throws
HookOutcomes == {"unset", "ok", "throws"}

\* poll() of the webhook variant: fetch, log the messages of others, move
\* the cursor, forward the list
WebhookPoll(outcome, hook) ==
    /\ client.phase = "running"
    /\ IF outcome = "fail"
       THEN UNCHANGED <<client, resp>>
       ELSE LET msgs == FetchMessages(messages, client.lastTimestamp)
            IN /\ resp' = Response("messages", Undefined, 200, [messages |-> msgs])
               /\ client' = [client EXCEPT
                     !.logged = @ \cup IdsOf(NewFromOthers(msgs)),
                     !.lastTimestamp = AdvanceCursor(@, msgs),
                     !.forwarded = IF hook = "ok" /\ msgs # <<>>
                                   THEN @ \cup IdsOf(msgs)
                                   ELSE @]
    /\ UNCHANGED <<clock, agents, messages, rateLimits, wsClients, readyState,
                   inbox, drain>>

(***************************************************************************)
(* Specifications.  Spec is the send path with every request input and     *)
(* every database fault, no viewer connected.  SpecFanout adds the         *)
(* WebSocket events and a throwing send().  SpecAuth has every credential, *)
(* the clock and a viewer.  SpecQuery adds the reads.  SpecDrain adds the  *)
(* draining consumer.                                                      *)
(***************************************************************************)
ValidName == Str(<<" ", "A", " ">>)
ValidContent == Str(<<" ">> \o Hi \o <<" ">>)

Next ==
    \/ Tick
    \/ \E name \in {Str(<<" ">>), ValidName}, u \in Uuids :
          Register(name, Undefined, u, u, 0)
    \/ \E key \in KeyInputs, content \in {Str(<<" ">>), ValidContent},
          room \in {Undefined, Str(<<" ">> \o Tech), Num(7)}, dbFault \in DbFaults :
          PostMessage(key, content, room, dbFault, 0)

Spec == Init /\ [][Next]_vars

NextFanout ==
    \/ \E c \in Conns : WsConnection(c)
    \/ \E c \in Conns : WsClosing(c)
    \/ \E c \in Conns : WsClose(c)
    \/ \E c \in Conns : WsError(c)
    \/ \E name \in {Undefined, ValidName}, failAt \in SendFaults :
          Register(name, Undefined, 1, 1, failAt)
    \/ \E key \in {Undefined, Str(ApiKey(1))},
          content \in {Str(<<" ">>), ValidContent},
          dbFault \in {"none", "insertMessage"}, failAt \in SendFaults :
          PostMessage(key, content, Undefined, dbFault, failAt)

SpecFanout == Init /\ [][NextFanout]_vars

\* the send path with every credential, the clock moving and a viewer connected
NextAuth ==
    \/ Tick
    \/ WsConnection(1)
    \/ \E u \in Uuids : Register(ValidName, Undefined, u, u, 0)
    \/ \E key \in KeyInputs, content \in {Str(<<" ">>), ValidContent} :
          PostMessage(key, content, Undefined, "none", 0)

SpecAuth == Init /\ [][NextAuth]_vars

NextQuery ==
    \/ Tick
    \/ \E u \in Uuids : Register(ValidName, Undefined, u, u, 0)
    \/ \E u \in Uuids, room \in {Undefined, Str(Tech)} :
          PostMessage(Str(ApiKey(u)), ValidContent, room, "none", 0)
    \/ \E since \in SinceInputs, room \in {Undefined, Str(<<" ">> \o Tech)} :
          GetMessages(since, room)

SpecQuery == Init /\ [][NextQuery]_vars

\* one agent filling two rooms, and both reads in both modes
NextPage ==
    \/ Tick
    \/ Register(ValidName, Undefined, 1, 1, 0)
    \/ \E room \in {Undefined, Str(Tech)} :
          PostMessage(Str(ApiKey(1)), ValidContent, room, "none", 0)
    \/ \E since \in SinceInputs, room \in {Undefined, Str(<<" ">> \o Tech)} :
          GetMessages(since, room)
    \/ \E since \in SinceInputs : GetMessagesAll(since)

SpecPage == Init /\ [][NextPage]_vars

NextDrain ==
    \/ Tick
    \/ Register(ValidName, Undefined, 1, 1, 0)
    \/ \E room \in {Undefined, Str(Tech)} :
          PostMessage(Str(ApiKey(1)), ValidContent, room, "none", 0)
    \/ \E room \in DrainRooms : DrainStart(room)
    \/ ClientStart
    \/ DrainPoll

SpecDrain == Init /\ [][NextDrain]_vars

\* sends with every way of leaving the room out, and the rooms listing
BlankRoomInputs == {Undefined, Str(<<>>), Str(<<" ">>)}

NextRooms ==
    \/ Tick
    \/ Register(ValidName, Undefined, 1, 1, 0)
    \/ \E room \in BlankRoomInputs \cup {Str(<<" ">> \o Tech)} :
          PostMessage(Str(ApiKey(1)), ValidContent, room, "none", 0)
    \/ ListRooms

SpecRooms == Init /\ [][NextRooms]_vars

\* registrations drawing the id and the key independently, a viewer, sends,
\* and every listing an agent or a message can appear in
NextDirectory ==
    \/ WsConnection(1)
    \/ \E description \in {Undefined, Str(<<" ", "d">>)}, u1 \in Uuids, u2 \in Uuids :
          Register(ValidName, description, u1, u2, 0)
    \/ \E u \in Uuids : PostMessage(Str(ApiKey(u)), ValidContent, Undefined, "none", 0)
    \/ ListAgents
    \/ GetMessages(Undefined, Undefined)
    \/ GetMessagesAll(Undefined)

SpecDirectory == Init /\ [][NextDirectory]_vars

\* registrations and sends with every kind of name and content, viewers that
\* come and go, and a send() that throws
AllNameInputs == NameInputs \cup {Str(<<>>), Num(7)}
AllContentInputs == ContentInputs \cup {Str(<<>>)}

NextValidation ==
    \/ \E c \in Conns : WsConnection(c)
    \/ \E c \in Conns : WsClosing(c)
    \/ \E name \in AllNameInputs, failAt \in SendFaults :
          Register(name, Undefined, 1, 1, failAt)
    \/ \E content \in AllContentInputs, dbFault \in {"none", "insertMessage"} :
          PostMessage(Str(ApiKey(1)), content, Undefined, dbFault, 0)

SpecValidation == Init /\ [][NextValidation]_vars

\* writes by one agent, a viewer, the clock, and the four reads
NextReads ==
    \/ Tick
    \/ WsConnection(1)
    \/ Register(ValidName, Undefined, 1, 1, 0)
    \/ \E room \in {Undefined, Str(Tech)} :
          PostMessage(Str(ApiKey(1)), ValidContent, room, "none", 0)
    \/ \E since \in {Undefined, Str(SqlDatetime(0))}, room \in {Undefined, Str(Tech)} :
          GetMessages(since, room)
    \/ \E since \in {Undefined, Str(SqlDatetime(0))} : GetMessagesAll(since)
    \/ ListAgents
    \/ ListRooms

SpecReads == Init /\ [][NextReads]_vars

\* the limiter called for two agents around the end of a cooldown
NextLimiter ==
    \/ \E t \in LimiterInstants : TickTo(t)
    \/ \E a \in Uuids : CheckRateLimit(a)

SpecLimiter == Init /\ [][NextLimiter]_vars

\* the client's own agent A and another agent B sending, the polling client
\* with fetches that succeed or fail
ClientMsgs == MaxMsgs - 1

ClientWrites ==
    \/ \E t \in ClientInstants : TickTo(t)
    \/ Register(ValidName, Undefined, 1, 1, 0)
    \/ Register(OtherName, Undefined, 2, 2, 0)
    \/ /\ Len(messages) < ClientMsgs
       /\ PostMessage(Str(ApiKey(1)), ValidContent, Undefined, "none", 0)
    \/ /\ Len(messages) < ClientMsgs
       /\ \E content \in {ValidContent, MentionContent} :
             PostMessage(Str(ApiKey(2)), content, Undefined, "none", 0)

NextClient ==
    \/ ClientWrites
    \/ PollLoopStart
    \/ \E p \in PollIds, outcome \in {"all", "fail"} : PollFetch(p, outcome)
    \/ \E p \in PollIds : PollHandle(p)

SpecClient == Init /\ [][NextClient]_vars

\* the client keeps running and its fetches succeed: every poll() that can
\* start does, and every generateReply settles
NextClientFair ==
    \/ ClientWrites
    \/ PollLoopStart
    \/ \E p \in PollIds : PollFetch(p, "all")
    \/ \E p \in PollIds : PollHandle(p)

SpecClientFair ==
    /\ Init /\ [][NextClientFair]_vars
    /\ WF_vars(\E p \in PollIds : PollFetch(p, "all"))
    /\ WF_vars(\E p \in PollIds : PollHandle(p))

\* the polling client with fetches that succeed, fall back or fail, with
\* replies that are sent or fail to be sent
ErrorsWrites ==
    \/ \E t \in ClientInstants : TickTo(t)
    \/ Register(ValidName, Undefined, 1, 1, 0)
    \/ Register(OtherName, Undefined, 2, 2, 0)
    \/ /\ Len(messages) < ClientMsgs
       /\ PostMessage(Str(ApiKey(2)), MentionContent, Undefined, "none", 0)

NextErrors ==
    \/ ErrorsWrites
    \/ PollLoopStart
    \/ \E p \in PollIds, outcome \in FetchOutcomes : PollFetch(p, outcome)
    \/ \E p \in PollIds, gen \in Replies, dbFault \in {"none", "insertMessage"} :
          PollHandleReply(p, gen, dbFault)

SpecErrors == Init /\ [][NextErrors]_vars

\* another agent sending in two rooms at instants of two seconds of a day,
\* the polling client with an all-rooms endpoint that answers or not
FallbackInstants == {0, DayMs, DayMs + 1000}

FallbackWrites ==
    \/ \E t \in FallbackInstants : TickTo(t)
    \/ Register(OtherName, Undefined, 2, 2, 0)
    \/ /\ Len(messages) < ClientMsgs
       /\ \E content \in {ValidContent, MentionContent}, room \in {Undefined, Str(Tech)} :
             PostMessage(Str(ApiKey(2)), content, room, "none", 0)

NextFallback ==
    \/ FallbackWrites
    \/ PollLoopStart
    \/ \E p \in PollIds, outcome \in FetchOutcomes : PollFetch(p, outcome)
    \/ \E p \in PollIds : PollHandle(p)

SpecFallback == Init /\ [][NextFallback]_vars

\* the webhook variant of the client against the two agents sending
NextWebhook ==
    \/ ClientWrites
    \/ PollLoopStart
    \/ \E outcome \in {"ok", "fail"}, hook \in HookOutcomes :
          WebhookPoll(outcome, hook)

SpecWebhook == Init /\ [][NextWebhook]_vars

(***************************************************************************)
(* Properties.                                                             *)
(***************************************************************************)
\* the instant (ms) at which the second a datetime('now') string names began
EpochMs(ts) == ts[1] * 86400000 + ts[3] * 1000

\* the rows of the log sent by agent a
RowsOf(a) == {r \in Range(messages) : r.agentId = a}

\* agent a has a row appended less than RATE_LIMIT_MS before now
WithinCooldown(a) ==
    \E r \in RowsOf(a) : clock - EpochMs(r.timestamp) < RATE_LIMIT_MS

\* every row of agent a was appended at least RATE_LIMIT_MS before now
CooldownElapsed(a) ==
    \A r \in RowsOf(a) : clock - (EpochMs(r.timestamp) + 999) >= RATE_LIMIT_MS

\* the agent a key authenticates as
AgentOfKey(key) == agents[GetAgentByKey(agents, key.s)].id

\* C1: a POST /api/message of an agent that arrives less than 30 s after a
\* send of the same agent was appended is answered 429 and appends nothing;
\* a valid send arriving after the cooldown has elapsed succeeds.
C1_RateLimitEnforced ==
    [][\A key \in KeyInputs, content \in ContentInputs, room \in RoomInputs,
          dbFault \in DbFaults :
          (AuthStatus(agents, key) = 0 /\ PostMessage(key, content, room, dbFault, 0))
          => /\ WithinCooldown(AgentOfKey(key))
                => resp'.status = 429 /\ messages' = messages
             /\ ( /\ CooldownElapsed(AgentOfKey(key))
                  /\ ~ContentInvalid(content)
                  /\ RoomOrGeneral(room).t = "string"
                  /\ dbFault = "none" )
                => resp'.status = 200 /\ Len(messages') = Len(messages) + 1
      ]_vars

\* C2: a POST /api/message that fails several checks is answered with the
\* failure of the first failing check in the order authenticate (401/403),
\* rate limit (429), content validation (400), and no later step runs.
C2_CheckOrder ==
    [][\A key \in KeyInputs, content \in ContentInputs, room \in RoomInputs,
          dbFault \in DbFaults :
          (ContentInvalid(content) /\ PostMessage(key, content, room, dbFault, 0))
          => IF AuthStatus(agents, key) # 0
             THEN /\ resp'.status = AuthStatus(agents, key)
                  /\ UNCHANGED <<agents, messages, inbox>>
             ELSE (dbFault = "none" /\ WithinCooldown(AgentOfKey(key)))
                  => resp'.status = 429 /\ UNCHANGED <<messages, inbox>>
      ]_vars

\* C3: in commit order, message ids are strictly increasing (so unique) and
\* timestamps never decrease.
C3_AppendOrdering ==
    \A i, j \in DOMAIN messages :
        i < j => /\ messages[i].id < messages[j].id
                 /\ ~StrLess(messages[j].timestamp, messages[i].timestamp)

\* three appends by two agents to two rooms, two of them within one second
\* and the third in a later second
C3_Witness ==
    /\ Len(messages) = 3
    /\ messages[1].timestamp = messages[2].timestamp
    /\ StrLess(messages[2].timestamp, messages[3].timestamp)
    /\ \E i, j \in DOMAIN messages :
          /\ messages[i].room # messages[j].room
          /\ messages[i].agentId # messages[j].agentId

\* C4: a message that committed later has a timestamp strictly greater than
\* that of every message that committed before it.
C4_StrictTimestamps ==
    \A i, j \in DOMAIN messages :
        i < j => StrLess(messages[i].timestamp, messages[j].timestamp)


\* the ids of the rows of a room with a timestamp after a cursor
RowsAfter(room, cursor) ==
    {r.id : r \in {x \in Range(messages) :
                      x.room = room /\ StrLess(cursor, x.timestamp)}}

\* C5: when a room holding more messages than the since-mode cap has been
\* drained (GET /api/messages with since = the maximum timestamp of the
\* previous result, until a result is empty) and the log did not change
\* meanwhile, every message of the room after the initial cursor was returned
\* exactly once.
C5_DrainComplete ==
    ( /\ drain.phase = "done"
      /\ Len(messages) = drain.startLen
      /\ Cardinality(RowsAfter(drain.room, drain.init)) > SinceLimit )
    => /\ Range(drain.got) = RowsAfter(drain.room, drain.init)
       /\ Len(drain.got) = Cardinality(Range(drain.got))

\* the viewers a broadcast reaches in the current state
OpenViewers == {c \in Range(wsClients) : readyState[c] = 1}

\* C6: every append that commits while a viewer is connected and open hands
\* that viewer exactly one new_message event for the appended row, after the
\* events it already has (the viewer whose own send() throws aside).
C6_FanoutComplete ==
    [][\A key \in KeyInputs, content \in ContentInputs, room \in RoomInputs,
          dbFault \in DbFaults, failAt \in SendFaults :
          ( /\ PostMessage(key, content, room, dbFault, failAt)
            /\ Len(messages') = Len(messages) + 1 )
          => \A c \in OpenViewers :
                (SendThrows(wsClients, readyState, failAt) => c # wsClients[failAt])
                => /\ Len(inbox'[c]) = Len(inbox[c]) + 1
                   /\ SubSeq(inbox'[c], 1, Len(inbox[c])) = inbox[c]
                   /\ inbox'[c][Len(inbox'[c])].type = "new_message"
                   /\ inbox'[c][Len(inbox'[c])].message.id
                        = messages'[Len(messages')].id
      ]_vars

\* every event handed to a viewer has its row: a new_message event its row
\* of the messages table, an agent_joined event its row of the agents table
EventsCommitted ==
    \A c \in Conns : \A i \in DOMAIN inbox[c] :
        LET e == inbox[c][i]
        IN IF e.type = "new_message"
           THEN \E r \in Range(messages) :
                   /\ r.id = e.message.id
                   /\ r.agentId = e.message.agentId
                   /\ r.agentName = e.message.agentName
                   /\ r.content = e.message.content
                   /\ r.room = e.message.room
           ELSE \E a \in Range(agents) :
                   a.id = e.agent.id /\ a.name = e.agent.name

\* a new_message event handed to a viewer in this step carries a message that
\* GET /api/messages of its room returns in the state the step leaves
DeliveredIsQueryable ==
    \A c \in Conns :
        inbox'[c] # inbox[c]
        => LET e == inbox'[c][Len(inbox'[c])]
           IN e.type = "new_message"
              => \E r \in Range(MessagesResult(messages', Undefined, Str(e.message.room))) :
                    r.id = e.message.id

\* C7: append commits before broadcast: a message carried by a new_message
\* event sent to a viewer is in the log and returned by a query of its room,
\* and an agent_joined event is sent only after the agent row is stored.
C7_CommitBeforeBroadcast == [][EventsCommitted' /\ DeliveredIsQueryable]_vars

\* a viewer has been sent an agent_joined and a new_message event
C7_Witness ==
    \E c \in Conns : \E i, j \in DOMAIN inbox[c] :
        inbox[c][i].type = "agent_joined" /\ inbox[c][j].type = "new_message"

\* no agent holds the key a request carried
KeyHeldByNone(rows, key) ==
    IsFalsy(key) \/ \A i \in DOMAIN rows : rows[i].apiKey # key.s

\* C8: a POST /api/message with a missing key is answered 401, one with a key
\* no registered agent holds 403, and it appends no message, sends no event
\* and updates no agent's lastSeen.
C8_AuthRejection ==
    [][(resp'.op = "message" /\ KeyHeldByNone(agents, resp'.key))
       => /\ resp'.status = IF IsFalsy(resp'.key) THEN 401 ELSE 403
          /\ messages' = messages
          /\ inbox' = inbox
          /\ agents' = agents
      ]_vars

\* a request with an unknown key was rejected in a second later than an
\* agent's lastSeen, while the log held a message and an open viewer was
\* connected
C8_Witness ==
    /\ resp.op = "message" /\ resp.status = 403
    /\ messages # <<>> /\ OpenViewers # {}
    /\ \E i \in DOMAIN agents : StrLess(agents[i].lastSeen, SqlDatetime(clock))

\* C9: a POST /api/message has appended its message if and only if it is
\* answered 200 {ok, messageId}; in particular a send() that throws during
\* the broadcast is not reported to the caller as an error.
C9_AppendedIffOk ==
    [][\A key \in KeyInputs, content \in ContentInputs, room \in RoomInputs,
          dbFault \in DbFaults, failAt \in SendFaults :
          PostMessage(key, content, room, dbFault, failAt)
          => (Len(messages') = Len(messages) + 1 <=> resp'.status = 200)
      ]_vars

\* C10: every message GET /api/messages returns for a room, in since-mode or
\* in latest-mode, is a message of that room.
C10_RoomIsolation ==
    [][\A since \in SinceInputs, room \in RoomInputs \ {Num(7)} :
          GetMessages(since, room)
          => \A m \in Range(resp'.body.messages) :
                m.room = Trim(RoomOrGeneral(room).s)
      ]_vars

\* a result of two messages of one room, while a message of another room was
\* committed between them
C10_Witness ==
    /\ resp.op = "messages"
    /\ Len(resp.body.messages) = 2
    /\ \E r \in Range(messages) :
          /\ r.room # resp.body.messages[1].room
          /\ resp.body.messages[1].id < r.id
          /\ r.id < resp.body.messages[2].id

\* the room field of a request names no room
RoomBlank(room) ==
    room.t = "undefined" \/ (room.t = "string" /\ Trim(room.s) = <<>>)

\* C11: a message sent with the room absent, empty or whitespace-only is
\* stored in room "general", and no stored message has an empty room name.
C11_DefaultRoom ==
    [][\A room \in BlankRoomInputs \cup {Str(<<" ">> \o Tech)} :
          ( /\ PostMessage(Str(ApiKey(1)), ValidContent, room, "none", 0)
            /\ Len(messages') = Len(messages) + 1 )
          => /\ RoomBlank(room) => messages'[Len(messages')].room = General
             /\ \A i \in DOMAIN messages' : messages'[i].room # <<>>
      ]_vars

\* the instant (ms) a timestamp string names
TimeOf(ts) == ts[1] * 86400000 + ts[3] * 1000 + ts[4]

\* the timestamp strings in the system: those stored in the log, those carried
\* by new_message events, and the cursor of a polling client
Timestamps ==
    {messages[i].timestamp : i \in DOMAIN messages}
    \cup UNION {{inbox[c][i].message.timestamp :
                    i \in {k \in DOMAIN inbox[c] : inbox[c][k].type = "new_message"}} :
                c \in Conns}
    \cup (IF drain.phase = "idle" THEN {} ELSE {drain.init, drain.cursor})

\* C12: of two timestamp strings in the system, the one naming the earlier
\* instant is the smaller string.
C12_StringOrderIsTimeOrder ==
    \A a, b \in Timestamps : TimeOf(a) < TimeOf(b) => StrLess(a, b)

\* C13: the message carried by a new_message event equals, in all six fields,
\* the row stored in the log for that append.
C13_EventEqualsRow ==
    \A c \in Conns : \A i \in DOMAIN inbox[c] :
        inbox[c][i].type = "new_message"
        => \E r \in Range(messages) : r = inbox[c][i].message

\* C14: with one agent registered and one message sent with no room to an
\* empty log, GET /api/messages for "general" with since = a timestamp taken
\* before the send returns exactly that message.
C14_EndToEnd ==
    [][( /\ DrainPoll
         /\ drain.room = General /\ drain.cursor = drain.init
         /\ drain.startLen = 0
         /\ Len(messages) = 1 /\ messages[1].room = General )
       => /\ Len(resp'.body.messages) = 1
          /\ resp'.body.messages[1].content = Hi
          /\ resp'.body.messages[1].agentName = <<"A">>
          /\ resp'.body.messages[1].room = General
      ]_vars

\* C15: GET /api/rooms returns the distinct rooms of the log together with
\* "general", each exactly once; with no message it returns ["general"].
C15_RoomsListing ==
    resp.op = "rooms"
    => /\ Range(resp.body.rooms) = {messages[i].room : i \in DOMAIN messages} \cup {General}
       /\ Len(resp.body.rooms) = Cardinality(Range(resp.body.rooms))
       /\ messages = <<>> => resp.body.rooms = <<General>>

\* the listing names "tech" and "general" while no message is in "general"
C15_Witness ==
    /\ resp.op = "rooms"
    /\ Tech \in Range(resp.body.rooms) /\ General \in Range(resp.body.rooms)
    /\ \A i \in DOMAIN messages : messages[i].room # General

\* C16: agents have pairwise distinct ids and pairwise distinct keys; a
\* registration leaves every existing agent's id, key and name in place and,
\* when it adds an agent, answers with an id and a key no agent had before.
C16_DistinctIdentities ==
    [][ /\ \A i, j \in DOMAIN agents' :
              i # j => /\ agents'[i].id # agents'[j].id
                       /\ agents'[i].apiKey # agents'[j].apiKey
        /\ Len(agents') >= Len(agents)
        /\ \A i \in DOMAIN agents :
              /\ agents'[i].id = agents[i].id
              /\ agents'[i].apiKey = agents[i].apiKey
              /\ agents'[i].name = agents[i].name
        /\ Len(agents') > Len(agents)
           => /\ resp'.op = "register" /\ resp'.status = 200
              /\ resp'.body.agentId = agents'[Len(agents')].id
              /\ resp'.body.apiKey = agents'[Len(agents')].apiKey
              /\ \A i \in DOMAIN agents :
                    /\ agents[i].id # resp'.body.agentId
                    /\ agents[i].apiKey # resp'.body.apiKey
      ]_vars

\* two agents of the same name are registered and a further registration,
\* whose id or key collided with theirs, was refused
C16_Witness ==
    /\ Len(agents) = 2
    /\ agents[1].name = agents[2].name
    /\ agents[1].id # agents[1].apiKey[2]
    /\ resp.op = "register" /\ resp.status = 500

\* the rows of a room (of every room when all is TRUE) a since-query is about
Qualifying(all, room, since) ==
    {r \in Range(messages) :
        (all \/ r.room = room) /\ StrLess(since, r.timestamp)}

\* result lists, without repetition and in ascending timestamp order, the
\* rows of Q, or the cap many of them with the smallest timestamps
SinceResultOk(result, Q) ==
    /\ Range(result) \subseteq Q
    /\ Len(result) = Cardinality(Range(result))
    /\ Len(result) = IF Cardinality(Q) < SinceLimit THEN Cardinality(Q) ELSE SinceLimit
    /\ \A i, j \in DOMAIN result :
          i < j => ~StrLess(result[j].timestamp, result[i].timestamp)
    /\ \A q \in Q \ Range(result) : \A r \in Range(result) :
          ~StrLess(q.timestamp, r.timestamp)

\* C17: GET /api/messages (and /api/messages/all) with since = s returns, in
\* ascending timestamp order, the messages with timestamp > s; when more than
\* the cap qualify, exactly the cap many with the smallest timestamps.
C17_SinceMode ==
    [][ /\ \A since \in SinceInputs, room \in {Undefined, Str(<<" ">> \o Tech)} :
              (~IsFalsy(since) /\ GetMessages(since, room))
              => SinceResultOk(resp'.body.messages,
                               Qualifying(FALSE, Trim(RoomOrGeneral(room).s), since.s))
        /\ \A since \in SinceInputs :
              (~IsFalsy(since) /\ GetMessagesAll(since))
              => SinceResultOk(resp'.body.messages, Qualifying(TRUE, <<>>, since.s))
      ]_vars

\* more messages of one room than the cap were committed and a query
\* returned the cap many committed first
C17_Witness ==
    /\ resp.op = "messages"
    /\ Len(messages) > SinceLimit
    /\ \A i \in DOMAIN messages : messages[i].room = messages[1].room
    /\ resp.body.messages = SubSeq(messages, 1, SinceLimit)

\* result lists, in commit order, the rows of Q, or the cap many of them
\* committed last
RecentResultOk(result, Q) ==
    /\ Range(result) \subseteq Q
    /\ Len(result) = IF Cardinality(Q) < RecentLimit THEN Cardinality(Q) ELSE RecentLimit
    /\ \A i, j \in DOMAIN result :
          i < j => /\ result[i].id < result[j].id
                   /\ ~StrLess(result[j].timestamp, result[i].timestamp)
    /\ \A q \in Q \ Range(result) : \A r \in Range(result) : q.id < r.id

\* C18: GET /api/messages without since returns the most recent messages of
\* the room, at most the cap many, in ascending chronological order; GET
\* /api/messages/all without since does so across rooms.
C18_LatestMode ==
    [][ /\ \A since \in SinceInputs, room \in {Undefined, Str(<<" ">> \o Tech)} :
              (IsFalsy(since) /\ GetMessages(since, room))
              => RecentResultOk(resp'.body.messages,
                                {r \in Range(messages) :
                                    r.room = Trim(RoomOrGeneral(room).s)})
        /\ \A since \in SinceInputs :
              (IsFalsy(since) /\ GetMessagesAll(since))
              => RecentResultOk(resp'.body.messages, Range(messages))
      ]_vars

\* more messages of one room than the cap were committed, the oldest of the
\* returned ones in the same second as the one before it, and a query returned
\* the cap many committed last
C18_Witness ==
    /\ resp.op = "messages"
    /\ Len(messages) > RecentLimit
    /\ \A i \in DOMAIN messages : messages[i].room = messages[1].room
    /\ messages[Len(messages) - RecentLimit].timestamp
         = messages[Len(messages) - RecentLimit + 1].timestamp
    /\ resp.body.messages
         = SubSeq(messages, Len(messages) - RecentLimit + 1, Len(messages))

\* C19: when the lastSeen update of an authenticated POST /api/message fails,
\* the request is handled as if it had not: a valid send is answered 200 and
\* appended, one with invalid content is answered 400.
C19_LastSeenBestEffort ==
    [][\A key \in KeyInputs, content \in ContentInputs,
          room \in RoomInputs \ {Num(7)} :
          ( /\ AuthStatus(agents, key) = 0
            /\ PostMessage(key, content, room, "updateLastSeen", 0) )
          => IF ContentInvalid(content)
             THEN resp'.status = 400
             ELSE resp'.status = 200 /\ Len(messages') = Len(messages) + 1
      ]_vars

\* a text that is an API key
IsKeyText(v) == Len(v) = 2 /\ v[1] = "ak_"

\* an agent summary or event payload that reveals no API key
AgentOutputClean(a) ==
    /\ "apiKey" \notin DOMAIN a
    /\ ~IsKeyText(a.name) /\ ~IsKeyText(a.description)

\* a message, as queried or as carried by an event, that reveals no API key
MessageOutputClean(m) ==
    /\ "apiKey" \notin DOMAIN m
    /\ ~IsKeyText(m.agentName) /\ ~IsKeyText(m.content) /\ ~IsKeyText(m.room)

\* C20: no API key is in the GET /api/agents listing, in an agent_joined or
\* new_message event, in a message query result, or in the answer to a send.
C20_KeyNeverRevealed ==
    /\ \A c \in Conns : \A i \in DOMAIN inbox[c] :
          IF inbox[c][i].type = "agent_joined"
          THEN AgentOutputClean(inbox[c][i].agent)
          ELSE MessageOutputClean(inbox[c][i].message)
    /\ resp.op = "agents"
       => \A i \in DOMAIN resp.body.agents : AgentOutputClean(resp.body.agents[i])
    /\ resp.op \in {"messages", "messagesAll"}
       => \A i \in DOMAIN resp.body.messages : MessageOutputClean(resp.body.messages[i])
    /\ resp.op = "message" => "apiKey" \notin DOMAIN resp.body

\* two agents are listed while a viewer holds an agent_joined and a
\* new_message event
C20_Witness ==
    /\ resp.op = "agents" /\ Len(resp.body.agents) = 2
    /\ \E c \in Conns : \E i, j \in DOMAIN inbox[c] :
          inbox[c][i].type = "agent_joined" /\ inbox[c][j].type = "new_message"

\* C21: a registration whose name is missing, not text, empty or
\* whitespace-only is answered 400, stores no agent and sends no event; a
\* registration answered 200 has sent exactly one agent_joined event, for the
\* new agent, to every open viewer.
C21_RegistrationValidation ==
    [][\A name \in AllNameInputs, failAt \in SendFaults :
          Register(name, Undefined, 1, 1, failAt)
          => /\ (name.t # "string" \/ Trim(name.s) = <<>>)
                => /\ resp'.status = 400
                   /\ agents' = agents /\ inbox' = inbox
             /\ resp'.status = 200
                => /\ Len(agents') = Len(agents) + 1
                   /\ \A c \in Conns :
                         IF c \in OpenViewers
                         THEN /\ Len(inbox'[c]) = Len(inbox[c]) + 1
                              /\ SubSeq(inbox'[c], 1, Len(inbox[c])) = inbox[c]
                              /\ inbox'[c][Len(inbox'[c])].type = "agent_joined"
                              /\ inbox'[c][Len(inbox'[c])].agent.id
                                   = agents'[Len(agents')].id
                         ELSE inbox'[c] = inbox[c]
      ]_vars

\* a registration was refused with 400 while an agent is registered and an
\* open viewer holds its agent_joined event
C21_Witness ==
    /\ resp.op = "register" /\ resp.status = 400
    /\ Len(agents) = 1
    /\ \E c \in OpenViewers : \E i \in DOMAIN inbox[c] :
          inbox[c][i].type = "agent_joined"

\* C22: no step removes or rewrites a message: every row of the log is still
\* there, at its place and with all six fields unchanged, after the step.
C22_AppendOnly ==
    [][ /\ Len(messages') >= Len(messages)
        /\ \A i \in DOMAIN messages : messages'[i] = messages[i]
      ]_vars

\* the log holds two messages and the latest send failed with 500
C22_Witness ==
    /\ Len(messages) >= 2
    /\ resp.op = "message" /\ resp.status = 500

ReadOps == {"messages", "messagesAll", "agents", "rooms"}

C24_ContentValidated ==
    [][ /\ \A i \in DOMAIN messages' :
              /\ messages'[i].content # <<>>
              /\ messages'[i].content[1] # " "
              /\ messages'[i].content[Len(messages'[i].content)] # " "
        /\ \A content \in AllContentInputs, dbFault \in {"none", "insertMessage"} :
              ( /\ AuthStatus(agents, Str(ApiKey(1))) = 0
                /\ PostMessage(Str(ApiKey(1)), content, Undefined, dbFault, 0)
                /\ (content.t # "string" \/ Trim(content.s) = <<>>) )
              => resp'.status = 400 /\ messages' = messages /\ inbox' = inbox
      ]_vars

\* a send was refused with 400 while the log holds a message
C24_Witness ==
    /\ resp.op = "message" /\ resp.status = 400
    /\ messages # <<>>

\* C26: checkRateLimit admits a call of an agent exactly when the agent has
\* no admitted call yet or the last one was at least RATE_LIMIT_MS ago; an
\* admitted call records the current time for that agent, a rejected call
\* records nothing, and no call changes another agent's entry.
C26_LimiterAdmission ==
    [][\A a \in Uuids :
          CheckRateLimit(a)
          => /\ resp'.body.admitted
                <=> ( \/ a \notin DOMAIN rateLimits
                      \/ DateNow(clock) - rateLimits[a] >= RATE_LIMIT_MS )
             /\ resp'.body.admitted
                => /\ rateLimits'[a] = DateNow(clock)
                   /\ DOMAIN rateLimits' = DOMAIN rateLimits \cup {a}
             /\ ~resp'.body.admitted => rateLimits' = rateLimits
             /\ \A b \in DOMAIN rateLimits : b # a => rateLimits'[b] = rateLimits[b]
      ]_vars

\* a call was rejected for an agent whose last admitted call was less than
\* RATE_LIMIT_MS ago, while another agent was admitted at another time
C26_Witness ==
    /\ resp.op = "checkRateLimit" /\ ~resp.body.admitted
    /\ DOMAIN rateLimits = Uuids
    /\ rateLimits[1] # rateLimits[2]
    /\ DateNow(clock) - rateLimits[resp.body.agentId] = RATE_LIMIT_MS - 1

\* the events of one viewer are pairwise different
NoEventTwice(box) ==
    \A i, j \in DOMAIN box : i # j => box[i] # box[j]

\* C27: the connection set holds a channel exactly from its connection event
\* to its close or error event; a step hands a viewer at most one event, and
\* only a viewer that is in the set and open; no viewer gets an event twice.
C27_ConnectionSet ==
    [][ /\ \A c \in Conns :
              /\ readyState'[c] = 1 => c \in Range(wsClients')
              /\ c \in Range(wsClients') => readyState'[c] \in {1, 2}
              /\ Cardinality({i \in DOMAIN wsClients' : wsClients'[i] = c}) <= 1
              /\ NoEventTwice(inbox'[c])
        /\ \A c \in Conns :
              inbox'[c] # inbox[c]
              => /\ c \in Range(wsClients) /\ readyState[c] = 1
                 /\ Len(inbox'[c]) = Len(inbox[c]) + 1
                 /\ SubSeq(inbox'[c], 1, Len(inbox[c])) = inbox[c]
      ]_vars

\* a closed viewer holds fewer events than an open one, and a closing viewer
\* is still in the set
C27_Witness ==
    /\ \E c, d \in Conns :
          /\ readyState[c] = 3 /\ readyState[d] = 1
          /\ inbox[c] # <<>> /\ Len(inbox[c]) < Len(inbox[d])

\* C28: when send() to one viewer throws during a broadcast, every other
\* viewer that is open at that moment is still sent the event.
C28_BestEffortDelivery ==
    [][\A failAt \in SendFaults :
          ( /\ SendThrows(wsClients, readyState, failAt)
            /\ \/ Register(ValidName, Undefined, 1, 1, failAt)
               \/ \E dbFault \in {"none", "insertMessage"} :
                     PostMessage(Str(ApiKey(1)), ValidContent, Undefined, dbFault, failAt)
            /\ (Len(agents') > Len(agents) \/ Len(messages') > Len(messages)) )
          => \A c \in OpenViewers :
                c # wsClients[failAt] => Len(inbox'[c]) = Len(inbox[c]) + 1
      ]_vars

\* the message with id i (the i-th row) is in the log, was appended after the
\* client started, and is from another agent
OwedToClient(i) ==
    /\ client.phase = "running"
    /\ i \in DOMAIN messages /\ i > client.startLen
    /\ messages[i].agentName # AGENT_NAME

\* C25: every message another agent appended after the polling client
\* started is eventually handled by the client.
C25_EventuallyReceived ==
    \A i \in 1..MaxMsgs :
        OwedToClient(i) ~> (TimesHandled(client.handled, i) > 0)

\* C29: the loop body of poll() runs at most once for each message, also
\* when a poll() starts while an earlier one is still awaiting its handlers.
C29_HandledAtMostOnce ==
    \A id \in DOMAIN client.handled : client.handled[id] <= 1

\* the timestamps of a list of messages
TimestampsOf(msgs) == {msgs[i].timestamp : i \in DOMAIN msgs}

\* v is the greatest of the strings of T
IsGreatestOf(v, T) == v \in T /\ \A t \in T : ~StrLess(v, t)

\* C30: lastTimestamp never decreases; when a poll() completes it is the
\* greatest of its previous value and the timestamps of all messages the
\* poll returned; a poll() whose fetch fails leaves it unchanged.
C30_CursorMonotone ==
    [][ /\ client.phase = "running"
           => ~StrLess(client'.lastTimestamp, client.lastTimestamp)
        /\ \A p \in PollIds :
              /\ (PollFetch(p, "all") /\ ~client'.runs[p].busy)
                 => IsGreatestOf(client'.lastTimestamp,
                                 {client.lastTimestamp}
                                    \cup TimestampsOf(resp'.body.messages))
              /\ (PollHandle(p) /\ ~client'.runs[p].busy)
                 => IsGreatestOf(client'.lastTimestamp,
                                 {client.lastTimestamp}
                                    \cup TimestampsOf(client.runs[p].messages))
              /\ PollFetch(p, "fail")
                 => client'.lastTimestamp = client.lastTimestamp
      ]_vars

\* after a failed poll the cursor sits on a log timestamp while a poll() that
\* fetched the client's own message along with another agent's is running
C30_Witness ==
    /\ client.errorCount > 0
    /\ client.lastTimestamp[2] = 32
    /\ \E p \in PollIds :
          /\ client.runs[p].busy
          /\ Len(client.runs[p].messages) > Len(client.runs[p].others)

\* the message with this id has been logged, answered or forwarded by a client
Echoed(id) ==
    \/ TimesHandled(client.handled, id) > 0
    \/ id \in client.logged
    \/ id \in client.forwarded

\* C31: no variant of the client logs, forwards to the webhook or answers a
\* message whose agentName is the client's own AGENT_NAME.
C31_NoEcho ==
    \A i \in DOMAIN messages :
        messages[i].agentName = AGENT_NAME => ~Echoed(messages[i].id)

\* C32: errorCount is 0 after every poll whose fetch succeeded and one more
\* after every poll whose fetch failed, a reply that could not be sent leaves
\* it alone, and the client has exited only with more than ErrorLimit failed
\* polls in a row.
C32_ConsecutiveErrors ==
    [][ /\ \A p \in PollIds :
              /\ (\E outcome \in {"all", "fallback"} : PollFetch(p, outcome))
                 => client'.errorCount = 0
              /\ PollFetch(p, "fail")
                 => client'.errorCount = client.errorCount + 1
              /\ (\E gen \in Replies, dbFault \in {"none", "insertMessage"} :
                     PollHandleReply(p, gen, dbFault))
                 => client'.errorCount = client.errorCount
        /\ client'.errorCount # client.errorCount
           => \E p \in PollIds, outcome \in FetchOutcomes : PollFetch(p, outcome)
        /\ client'.phase = "exited"
           => client'.errorCount > ErrorLimit
      ]_vars

\* the client has exited after a reply of it could not be sent
C32_Witness ==
    /\ client.phase = "exited"
    /\ client.lastSend = "failed"

\* the client has run the loop body for the message with this id, or a
\* poll() in flight holds it
InHand(id) ==
    \/ TimesHandled(client.handled, id) > 0
    \/ \E p \in PollIds : client.runs[p].busy /\ id \in IdsOf(client.runs[p].others)

\* a fetch with this cursor can return the message
Fetchable(lastTimestamp, m) == StrLess(lastTimestamp, m.timestamp)

\* C33: a poll() that fell back to the room endpoint and moved the cursor
\* leaves every message of another room that the client has not received
\* within reach of a later fetch.
C33_FallbackSkipsNothing ==
    [][ \A p \in PollIds :
           (PollFetch(p, "fallback") /\ ~client'.runs[p].busy)
           => \A i \in DOMAIN messages :
                 ( /\ messages[i].room # General
                   /\ messages[i].agentName # AGENT_NAME
                   /\ ~InHand(messages[i].id)
                   /\ Fetchable(client.lastTimestamp, messages[i]) )
                 => Fetchable(client'.lastTimestamp, messages[i])
      ]_vars

====
